---- MODULE Spec2Model ----
(***************************************************************************)
(* Model of the SUMOxPyPSA Manhattan coupling engine:                      *)
(*   - ManhattanTrafficController (app.py): traffic-light phase machine    *)
(*   - ManhattanEVNetwork (app.py): EV classification and charging         *)
(*   - ManhattanPowerNetworkRealistic (manhattan_power_network.py):        *)
(*     traffic-driven loads, merit-order dispatch, battery state of charge *)
(* Each subsystem has its own specification (SpecTL, SpecEV, SpecPower,    *)
(* SpecLoads); the variables of the other subsystems stay at their idle    *)
(* values.                                                                 *)
(***************************************************************************)
EXTENDS Integers, Sequences, FiniteSets, TLC

VARIABLES
    \* ---- ManhattanTrafficController ----
    lights,                 \* tl_id -> [phase, timer, history_len]
    traffic_light_states,   \* tl_id -> state string stored for the power network
    sumo_state,             \* tl_id -> state string held by the external simulator
    tl_counts,              \* metrics['traffic_lights'] green / yellow / red
    cycle_time,             \* self.cycle_time (capped)
    tl_obs,                 \* observer: per light, call counts per phase and per cycle
    fault_count,            \* number of simulator faults injected so far
    \* ---- ManhattanEVNetwork ----
    ev_share_percent,       \* self.ev_share_percent
    ev_charging_bias_percent, \* self.ev_charging_bias_percent
    ev_vehicles,            \* vid -> [battery, charging, target_station] or NoEV
    charging_vehicles,      \* station id -> occupant list of the last tick
    vehicles_charging,      \* station['vehicles_charging'] of every station
    charging_sessions,      \* station id -> vehicles with a metering session
    ev_counts,              \* (total_evs, charging_count) returned by the last tick
    last_is_ev,             \* vid -> classification written by the last tick that saw it
    snapshot_ids,           \* observer: the vehicle ids in the snapshot of the last tick
    route_log,              \* observer: the route_ev_to_station calls of the last tick
    \* ---- ManhattanPowerNetworkRealistic: dispatch ----
    total_load,             \* self.total_load, kW
    total_generation,       \* self.total_generation, kW
    current_output,         \* generator -> current_output, kW
    current_soc,            \* battery -> current_soc, millionths
    soc_before,             \* observer: battery -> current_soc when the last dispatch ran
    dispatched,             \* observer: thermal units the last dispatch reached with load remaining
    line_flow,              \* line -> current_flow, kW
    thermal_violations,     \* self.thermal_violations: set of the recorded entries
    has_thermal_violations, \* whether the attribute self.thermal_violations exists
    power_steps,            \* number of simulate_power_flow calls made so far
    \* ---- ManhattanPowerNetworkRealistic: traffic-driven loads ----
    traffic_light_loads,    \* signal controller -> current_mw, W
    ev_charging_loads,      \* station -> [current_mw in W, utilization in thousandths]
    street_light_loads,     \* lighting circuit -> current_mw, W
    last_update,            \* observer: whether the last update_traffic_loads call had 0
                            \* vehicles, some signals, all of them red, and no occupant
    \* ---- SUMOPyPSACoupler ----
    sumo_connected,         \* self.sumo_connected
    coupler_metrics,        \* self.metrics
    signal_count,           \* len(self.traffic_state['signals'])
    coupler_step,           \* the next value of step in run_coupled_simulation
    snapshot_failed,        \* observer: update_traffic_state has failed in some step
    metrics_source,         \* observer: what the metrics of the last step were computed from
    \* ---- simulation thread and request handlers ----
    flow_pc,                \* position of the simulation thread inside simulate_power_flow
    pending,                \* base load and hour of the simulate_power_flow call under way
    observed,               \* what the last get_network_data call of a request handler read
    \* ---- start / restart handlers and manhattan_simulation threads ----
    simulation_running,     \* the global simulation_running
    stop_event,             \* stop_event.is_set()
    sim_pc,                 \* thread -> position of that manhattan_simulation thread
    restart_pc              \* position of the handle_restart call under way

tlVars == <<lights, traffic_light_states, sumo_state, tl_counts, cycle_time, tl_obs,
            fault_count>>

evVars == <<ev_share_percent, ev_charging_bias_percent, ev_vehicles, charging_vehicles,
            vehicles_charging, charging_sessions, ev_counts, last_is_ev, snapshot_ids,
          route_log,
            route_log>>

pwVars == <<total_load, total_generation, current_output, current_soc, soc_before,
            dispatched, line_flow, thermal_violations, has_thermal_violations,
            power_steps>>

ldVars == <<traffic_light_loads, ev_charging_loads, street_light_loads, last_update>>

cpVars == <<sumo_connected, coupler_metrics, signal_count, coupler_step, snapshot_failed,
            metrics_source>>

rdVars == <<flow_pc, pending, observed>>

thVars == <<simulation_running, stop_event, sim_pc, restart_pc>>

vars == <<lights, traffic_light_states, sumo_state, tl_counts, cycle_time, tl_obs,
          fault_count,
          ev_share_percent, ev_charging_bias_percent, ev_vehicles, charging_vehicles,
          vehicles_charging, charging_sessions, ev_counts, last_is_ev, snapshot_ids,
          total_load, total_generation, current_output, current_soc, soc_before,
          dispatched, line_flow, thermal_violations, has_thermal_violations, power_steps,
          traffic_light_loads, ev_charging_loads, street_light_loads, last_update,
          sumo_connected, coupler_metrics, signal_count, coupler_step, snapshot_failed,
          metrics_source,
          flow_pc, pending, observed,
          simulation_running, stop_event, sim_pc, restart_pc>>

(***************************************************************************)
(* Generic helpers                                                         *)
(***************************************************************************)
Min(a, b) == IF a < b THEN a ELSE b
Max(a, b) == IF a > b THEN a ELSE b

\* Python's  c * n  for a one-character string c (empty when n <= 0)
Rep(c, n) == [i \in 1..n |-> c]

\* Python's  x in s  for a character x and a string s
Has(s, x) == \E i \in 1..Len(s) : s[i] = x

(***************************************************************************)
(* ManhattanTrafficController                                              *)
(***************************************************************************)
\* the lights found in Manhattan, by discovery order (enumerate index)
Lights == {0, 1}

\* is_avenue = (i % 3 == 0)
IsAvenue(i) == i % 3 = 0

Pattern(i) == IF IsAvenue(i) THEN "AVENUE" ELSE "STREET"

AvenueGreen == 35
StreetGreen == 25
YellowTime == 3
AllRedTime == 2

green_time(i) == IF IsAvenue(i) THEN AvenueGreen ELSE StreetGreen
yellow_time(i) == YellowTime
all_red_time(i) == AllRedTime

\* offsets assigned at initialization: int((lat - 40.700) * 1000) % 60 for an
\* avenue (0..59), random.randint(0, 30) for a street (0..30); a sample of each
\* range, with the ends and the values around the green time
AvenueOffsets == {0, 35, 59}
StreetOffsets == {0, 25, 30}

\* number of signal heads the simulator reports for a light at start-up
InitialSignals(i) == IF IsAvenue(i) THEN 4 ELSE 3

\* the string _generate_manhattan_state builds before the length repair
RawState(pattern, phase, n) ==
    IF pattern = "AVENUE"
    THEN CASE phase = 0 -> IF n > 2 THEN <<"G", "G">> \o Rep("r", n - 2) ELSE <<"G", "G">>
           [] phase = 1 -> IF n > 2 THEN <<"y", "y">> \o Rep("r", n - 2) ELSE <<"y", "y">>
           [] phase = 2 -> Rep("r", n)
           [] phase = 3 -> IF n > 2 THEN <<"r", "r">> \o Rep("G", n - 2) ELSE <<"G", "G">>
           [] phase = 4 -> IF n > 2 THEN <<"r", "r">> \o Rep("y", n - 2) ELSE <<"y", "y">>
           [] OTHER -> Rep("r", n)
    ELSE CASE phase = 0 -> Rep("G", n \div 2) \o Rep("r", n - (n \div 2))
           [] phase = 1 -> Rep("y", n \div 2) \o Rep("r", n - (n \div 2))
           [] phase = 2 -> Rep("r", n)
           [] phase = 3 -> Rep("r", n \div 2) \o Rep("G", n - (n \div 2))
           [] phase = 4 -> Rep("r", n \div 2) \o Rep("y", n - (n \div 2))
           [] OTHER -> Rep("r", n)

\* truncate or right-pad with red to the expected signal count
RepairLength(state, n) ==
    IF Len(state) = n THEN state
    ELSE IF Len(state) > n THEN SubSeq(state, 1, n)
    ELSE state \o Rep("r", n - Len(state))

\* _generate_manhattan_state(tl_id, phase); when the simulator call inside it
\* raises, the bare except returns 'rrrr'
GenerateState(i, phase, current, failed) ==
    IF failed THEN <<"r", "r", "r", "r">>
    ELSE RepairLength(RawState(Pattern(i), phase, Len(current)), Len(current))

\* colour class of a raw state string: green > yellow > red
ColorOf(state) ==
    IF Has(state, "G") \/ Has(state, "g") THEN "green"
    ELSE IF Has(state, "y") \/ Has(state, "Y") THEN "yellow"
    ELSE "red"

\* duration of the active phase: phases 0,3 green; 1,4 yellow; 2,5 all-red
Duration(i, phase) ==
    IF phase \in {0, 3} THEN green_time(i)
    ELSE IF phase \in {1, 4} THEN yellow_time(i)
    ELSE all_red_time(i)

PhaseEnds_late(i, phase, timer) == timer > Duration(i, phase)

\* whether the timer, already incremented, ends the active phase
PhaseEnds(i, phase, timer) == timer >= Duration(i, phase)

NextPhase_skip(phase) == (phase + 2) % 6

\* phase after a phase end
NextPhase(phase) == (phase + 1) % 6

\* state_history keeps the last 10 generated states; its length is modelled
HistoryLimit == 10

\* where a simulator call for one light can raise during update_cycle:
\*   gen  getRedYellowGreenState inside _generate_manhattan_state
\*   set  setRedYellowGreenState (the push of the new state)
\*   get  getRedYellowGreenState for the colour count
Faults == {"none", "gen", "set", "get", "gen_get"}

\* cycle_time only counts calls; it is capped to keep the model finite
MaxCycleTime == 3

\* simulator faults injected in one run
MaxFaults == 1

\* the body of the for loop of update_cycle for one light under fault f:
\* the light's new record, stored state, simulator state and counted colour
LightStep(i, f) ==
    LET timer1 == lights[i].timer + 1
        ends == PhaseEnds(i, lights[i].phase, timer1)
        phase2 == IF ends THEN NextPhase(lights[i].phase) ELSE lights[i].phase
        timer2 == IF ends THEN 0 ELSE timer1
        new_state == GenerateState(i, phase2, sumo_state[i], f \in {"gen", "gen_get"})
        pushed == ends /\ f # "set"
        sumo2 == IF pushed THEN new_state ELSE sumo_state[i]
        counted == IF ends THEN f \in {"none", "gen"} ELSE f \notin {"get", "gen_get"}
    IN [light |-> [phase |-> phase2, timer |-> timer2,
                   history_len |-> IF pushed
                                   THEN Min(lights[i].history_len + 1, HistoryLimit)
                                   ELSE lights[i].history_len],
        stored |-> IF pushed THEN new_state ELSE traffic_light_states[i],
        sumo |-> sumo2,
        color |-> IF counted THEN ColorOf(sumo2) ELSE "skipped",
        advanced |-> ends]

\* observer of one light: calls spent in the current phase, whether that phase
\* was entered by a transition, the last completed phase and its length, the
\* calls since the last transition into phase 0, the last full cycle length,
\* whether a fault hit the light during the running and the last full cycle,
\* and the fault that hit the light in the last call
ObsStep(i, o, advanced, newphase, f) ==
    LET calls == o.phase_calls + 1
        since == IF o.since_zero >= 0 THEN o.since_zero + 1 ELSE o.since_zero
        hit == o.fault_in_cycle \/ f # "none"
        wraps == advanced /\ newphase = 0
    IN IF ~advanced
       THEN [o EXCEPT !.phase_calls = calls, !.since_zero = since,
                      !.fault_in_cycle = hit, !.fault = f]
       ELSE [phase_calls |-> 0,
             entered |-> TRUE,
             done_phase |-> IF o.entered THEN lights[i].phase ELSE -1,
             done_calls |-> IF o.entered THEN calls ELSE 0,
             since_zero |-> IF wraps THEN 0 ELSE since,
             cycle_calls |-> IF wraps /\ o.since_zero >= 0 THEN since
                             ELSE IF wraps THEN 0 ELSE o.cycle_calls,
             fault_in_cycle |-> IF wraps THEN FALSE ELSE hit,
             cycle_faulted |-> IF wraps THEN hit ELSE o.cycle_faulted,
             fault |-> f]

Count(f, c) == Cardinality({i \in Lights : f[i].color = c})

TLInit ==
    /\ lights \in [Lights -> [phase : {0}, timer : AvenueOffsets \cup StreetOffsets,
                              history_len : {0}]]
    /\ \A i \in Lights :
          lights[i].timer \in (IF IsAvenue(i) THEN AvenueOffsets ELSE StreetOffsets)
    /\ sumo_state = [i \in Lights |->
                        GenerateState(i, 0, Rep("r", InitialSignals(i)), FALSE)]
    /\ traffic_light_states = sumo_state
    /\ tl_counts = [green |-> 0, yellow |-> 0, red |-> 0]
    /\ cycle_time = 0
    /\ fault_count = 0
    /\ tl_obs = [i \in Lights |-> [phase_calls |-> 0, entered |-> FALSE,
                                   done_phase |-> -1, done_calls |-> 0,
                                   since_zero |-> -1, cycle_calls |-> 0,
                                   fault_in_cycle |-> FALSE,
                                   cycle_faulted |-> FALSE, fault |-> "none"]]

\* largest number of signal heads a light is started with when the head
\* counts are varied
MaxHeads == 4

\* initialize_manhattan_lights over lights of every head count, with no
\* simulator fault to come
TLInitHeads ==
    /\ lights \in [Lights -> [phase : {0}, timer : AvenueOffsets \cup StreetOffsets,
                              history_len : {0}]]
    /\ \A i \in Lights :
          lights[i].timer \in (IF IsAvenue(i) THEN AvenueOffsets ELSE StreetOffsets)
    /\ \E heads \in [Lights -> 0..MaxHeads] :
          sumo_state = [i \in Lights |-> GenerateState(i, 0, Rep("r", heads[i]), FALSE)]
    /\ traffic_light_states = sumo_state
    /\ tl_counts = [green |-> 0, yellow |-> 0, red |-> 0]
    /\ cycle_time = 0
    /\ fault_count = MaxFaults
    /\ tl_obs = [i \in Lights |-> [phase_calls |-> 0, entered |-> FALSE,
                                   done_phase |-> -1, done_calls |-> 0,
                                   since_zero |-> -1, cycle_calls |-> 0,
                                   fault_in_cycle |-> FALSE,
                                   cycle_faulted |-> FALSE, fault |-> "none"]]

update_cycle_abort ==
    \E f \in [Lights -> Faults] :
        LET r == [i \in Lights |-> LightStep(i, f[i])]
            injected == Cardinality({i \in Lights : f[i] # "none"})
            aborted == [i \in Lights |-> \E j \in Lights : j < i /\ f[j] # "none"]
        IN /\ fault_count + injected <= MaxFaults
           /\ fault_count' = fault_count + injected
           /\ lights' = [i \in Lights |-> IF aborted[i] THEN lights[i] ELSE r[i].light]
           /\ traffic_light_states' = [i \in Lights |->
                 IF aborted[i] THEN traffic_light_states[i] ELSE r[i].stored]
           /\ sumo_state' = [i \in Lights |-> IF aborted[i] THEN sumo_state[i] ELSE r[i].sumo]
           /\ tl_counts' = tl_counts
           /\ cycle_time' = Min(cycle_time + 1, MaxCycleTime)
           /\ tl_obs' = [i \in Lights |->
                            ObsStep(i, tl_obs[i], r[i].advanced, r[i].light.phase,
                                    f[i])]

\* update_cycle(): one call, every light handled in turn, a fault on a light
\* swallowed by the bare except
update_cycle ==
    \E f \in [Lights -> Faults] :
        LET r == [i \in Lights |-> LightStep(i, f[i])]
            injected == Cardinality({i \in Lights : f[i] # "none"})
        IN /\ fault_count + injected <= MaxFaults
           /\ fault_count' = fault_count + injected
           /\ lights' = [i \in Lights |-> r[i].light]
           /\ traffic_light_states' = [i \in Lights |-> r[i].stored]
           /\ sumo_state' = [i \in Lights |-> r[i].sumo]
           /\ tl_counts' = [green |-> Count(r, "green"),
                            yellow |-> Count(r, "yellow"),
                            red |-> Count(r, "red")]
           /\ cycle_time' = Min(cycle_time + 1, MaxCycleTime)
           /\ tl_obs' = [i \in Lights |->
                            ObsStep(i, tl_obs[i], r[i].advanced, r[i].light.phase,
                                    f[i])]

(***************************************************************************)
(* ManhattanEVNetwork                                                      *)
(***************************************************************************)
\* vehicle ids the simulator can report, in the order of its id list
NumVehicles == 8
Vehicles == 1..NumVehicles

\* vehicle 1 moves freely; the others travel as one platoon
FreeVehicle == 1
PlatoonVehicles == Vehicles \ {FreeVehicle}

\* hash(vid) % 100: fixed for a vehicle id during a run
HashBucket(v) == IF v = FreeVehicle THEN 40 ELSE 10

DefaultPercent == 30

\* max(0, min(100, percent))
ClampPercent(p) == Max(0, Min(100, p))

\* is_ev = (hash(vid) % 100) < share
IsEV(v, share) == HashBucket(v) < share

\* the charging stations, in list order, on a grid of 0.00001 degrees
Stations == {1, 2}
StationPos(s) == IF s = 1 THEN [x |-> 0, y |-> 0] ELSE [x |-> 500, y |-> 0]

\* capacity = random.randint(6, 12); the smallest capacity is modelled
MinCapacity == 6
Capacity(s) == MinCapacity

\* capture_radius = 0.002 + (bias / 100) * 0.006, on the 0.00001-degree grid
BaseRadius == 200
ExtraRadius == 600
CaptureRadius(bias) == BaseRadius + (bias * ExtraRadius) \div 100

\* the sanity distance 0.01 of route_ev_to_station
SanityDistance == 1000

Abs(a) == IF a < 0 THEN -a ELSE a

\* lat_diff < capture_radius and lon_diff < capture_radius
InCapture(pos, s, bias) ==
    /\ Abs(pos.y - StationPos(s).y) < CaptureRadius(bias)
    /\ Abs(pos.x - StationPos(s).x) < CaptureRadius(bias)

\* squared straight-line distance of a vehicle to a station
Dist2(pos, s) ==
    (pos.x - StationPos(s).x) * (pos.x - StationPos(s).x)
  + (pos.y - StationPos(s).y) * (pos.y - StationPos(s).y)

\* battery percentages are counted in quarter points
Pct(p) == 4 * p
ChargeStep == 2
FullBattery == Pct(100)
StopCharging == Pct(95)
LowBattery == Pct(30)
MidBattery == Pct(50)

\* random.uniform(20, 80) at creation: a sample of the range (29.75, 79.75)
InitBatteries == {119, 319}

\* the draw of a vehicle that is followed until it is fully charged (79.75)
HighBattery == 319

NoEV == [battery |-> -1, charging |-> FALSE, target_station |-> 0]

\* random.random() < bias / 100, for a draw that is small when coin holds
CoinBelow(bias, coin) ==
    IF bias <= 0 THEN FALSE ELSE IF bias >= 100 THEN TRUE ELSE coin

needs_charging(battery, bias, coin) ==
    battery < LowBattery \/ (battery < MidBattery /\ CoinBelow(bias, coin))

\* the stations with free capacity, by the occupancy of the previous tick
FreeStations == {s \in Stations : Len(vehicles_charging[s]) < Capacity(s)}

route_ev_to_station_any_station(pos, route_ok) ==
    LET best == CHOOSE s \in Stations :
                    \A t \in Stations :
                        \/ Dist2(pos, s) < Dist2(pos, t)
                        \/ (Dist2(pos, s) = Dist2(pos, t) /\ s <= t)
    IN IF Dist2(pos, best) < SanityDistance * SanityDistance /\ route_ok
       THEN best ELSE 0

\* route_ev_to_station: the first nearest station with free capacity, if it is
\* within the sanity distance and the simulator finds and sets a route to it;
\* 0 stands for None
route_ev_to_station(pos, route_ok) ==
    IF FreeStations = {} THEN 0
    ELSE LET best == CHOOSE s \in FreeStations :
                        \A t \in FreeStations :
                            \/ Dist2(pos, s) < Dist2(pos, t)
                            \/ (Dist2(pos, s) = Dist2(pos, t) /\ s <= t)
         IN IF Dist2(pos, best) < SanityDistance * SanityDistance /\ route_ok
            THEN best ELSE 0

\* the stations a vehicle is checked against, in list order, until it is
\* admitted by one: those in capture range
InRange(pos, bias) == {s \in Stations : InCapture(pos, s, bias)}

\* the station that admits a slow vehicle: the first in range that is not full
Admitting_nocap(pos, bias, cv) ==
    LET open == InRange(pos, bias)
    IN IF open = {} THEN 0 ELSE CHOOSE s \in open : \A t \in open : s <= t

Admitting(pos, bias, cv) ==
    LET open == {s \in InRange(pos, bias) : Len(cv.occ[s]) < Capacity(s)}
    IN IF open = {} THEN 0 ELSE CHOOSE s \in open : \A t \in open : s <= t

\* keys created in charging_vehicles while a vehicle is checked: every station
\* in range up to and including the one that admits it
Touched(pos, bias, a) == {s \in InRange(pos, bias) : a = 0 \/ s <= a}

\* battery after one metering step, and whether charging stops
Metered(battery) == Min(FullBattery, battery + ChargeStep)
StopsCharging_never(battery) == FALSE
StopsCharging(battery) == battery >= StopCharging

\* one iteration of the loop of process_ev_charging over the snapshot; st is
\* the loop state, sight one vehicle of the snapshot, draw the battery a newly
\* seen EV gets
VehicleStep(st, sight, share, bias, draw) ==
    LET vid == sight.id
        is_ev == IsEV(vid, share)
        seen == [st.seen EXCEPT ![vid] = IF is_ev THEN "ev" ELSE "non_ev"]
    IN IF ~is_ev THEN [st EXCEPT !.seen = seen]
       ELSE
       LET ev0 == IF st.ev[vid] = NoEV
                  THEN [battery |-> draw, charging |-> FALSE, target_station |-> 0]
                  ELSE st.ev[vid]
           needs == needs_charging(ev0.battery, bias, sight.coin)
           calls == needs /\ ~ev0.charging
           routed == IF calls THEN route_ev_to_station(sight.pos, sight.route_ok) ELSE 0
           ev1 == IF routed # 0 THEN [ev0 EXCEPT !.target_station = routed] ELSE ev0
           call == [pos |-> sight.pos, station |-> routed,
                    target_before |-> ev0.target_station,
                    target_after |-> ev1.target_station]
           a == IF sight.slow THEN Admitting(sight.pos, bias, st.cv) ELSE 0
           cv1 == [keys |-> st.cv.keys \cup Touched(sight.pos, bias, a),
                   occ |-> [s \in Stations |->
                              IF s = a THEN Append(st.cv.occ[s], vid)
                              ELSE st.cv.occ[s]]]
           b2 == Metered(ev1.battery)
           ev2 == IF a = 0 THEN ev1
                  ELSE IF StopsCharging(b2)
                  THEN [battery |-> b2, charging |-> FALSE, target_station |-> 0]
                  ELSE [ev1 EXCEPT !.battery = b2, !.charging = TRUE]
       IN [ev |-> [st.ev EXCEPT ![vid] = ev2],
           cv |-> cv1,
           sessions |-> IF a = 0 THEN st.sessions
                        ELSE [st.sessions EXCEPT ![a] = @ \cup {vid}],
           total |-> st.total + 1,
           charging |-> IF a = 0 THEN st.charging ELSE st.charging + 1,
           seen |-> seen,
           log |-> IF calls THEN st.log \cup {call} ELSE st.log]

RECURSIVE ProcessVehicles(_, _, _, _, _)
ProcessVehicles(st, snapshot, share, bias, draw) ==
    IF snapshot = <<>> THEN st
    ELSE ProcessVehicles(VehicleStep(st, Head(snapshot), share, bias, draw),
                         Tail(snapshot), share, bias, draw)

\* self.charging_vehicles = {}: no keys, and so no occupants
EmptyOccupancy == [keys |-> {}, occ |-> [s \in Stations |-> <<>>]]

\* process_ev_charging(vehicles)
process_ev_charging(snapshot, draw) ==
    LET share == ClampPercent(ev_share_percent)
        bias == ClampPercent(ev_charging_bias_percent)
        st0 == [ev |-> ev_vehicles, cv |-> EmptyOccupancy, sessions |-> charging_sessions,
                total |-> 0, charging |-> 0, seen |-> last_is_ev, log |-> {}]
        st == ProcessVehicles(st0, snapshot, share, bias, draw)
    IN /\ ev_vehicles' = st.ev
       /\ charging_vehicles' = st.cv
       /\ vehicles_charging' = [s \in Stations |->
                                   IF s \in st.cv.keys THEN st.cv.occ[s] ELSE <<>>]
       /\ charging_sessions' = st.sessions
       /\ ev_counts' = [total_evs |-> st.total, charging_count |-> st.charging]
       /\ last_is_ev' = st.seen
       /\ snapshot_ids' = {snapshot[k].id : k \in 1..Len(snapshot)}
       /\ route_log' = st.log
       /\ UNCHANGED <<ev_share_percent, ev_charging_bias_percent>>

\* the percent values a client sends with set_ev_percentage / set_ev_charging_bias
SharePercents == {30, 50}
BiasPercents == {0, 30, 100}

\* handle_set_ev_percentage(data)
set_ev_percentage(percent) ==
    /\ ev_share_percent' = ClampPercent(percent)
    /\ UNCHANGED <<ev_charging_bias_percent, ev_vehicles, charging_vehicles,
                   vehicles_charging, charging_sessions, ev_counts, last_is_ev,
                   snapshot_ids, route_log>>

\* handle_set_ev_charging_bias(data)
set_ev_charging_bias(percent) ==
    /\ ev_charging_bias_percent' = ClampPercent(percent)
    /\ UNCHANGED <<ev_share_percent, ev_vehicles, charging_vehicles,
                   vehicles_charging, charging_sessions, ev_counts, last_is_ev,
                   snapshot_ids, route_log>>

\* places a vehicle is reported at
AtStation == [x |-> 0, y |-> 0]
NearStation == [x |-> 300, y |-> 0]
MidWay == [x |-> 900, y |-> 0]
FarAway == [x |-> 5000, y |-> 5000]

\* what the snapshot says of one vehicle, with the two random outcomes that
\* concern it in the tick
Sightings ==
    { [pos |-> AtStation, slow |-> TRUE, coin |-> FALSE, route_ok |-> FALSE],
      [pos |-> AtStation, slow |-> FALSE, coin |-> TRUE, route_ok |-> TRUE],
      [pos |-> NearStation, slow |-> TRUE, coin |-> TRUE, route_ok |-> TRUE],
      [pos |-> MidWay, slow |-> TRUE, coin |-> TRUE, route_ok |-> TRUE],
      [pos |-> FarAway, slow |-> TRUE, coin |-> TRUE, route_ok |-> TRUE] }

Sighted(v, g) == [id |-> v, pos |-> g.pos, slow |-> g.slow, coin |-> g.coin,
                  route_ok |-> g.route_ok]

\* snapshots of the free vehicle: absent, or sighted somewhere
FreeSnapshots == {<<>>} \cup { <<Sighted(FreeVehicle, g)>> : g \in Sightings }

\* snapshots of the platoon: absent, or all its vehicles stopped at station 1
\* or driving past it
PlatoonSnapshots ==
    {<<>>} \cup { [j \in 1..(NumVehicles - 1) |-> Sighted(j + 1, g)] :
                    g \in {h \in Sightings : h.pos = AtStation} }

EVInit ==
    /\ ev_share_percent = DefaultPercent
    /\ ev_charging_bias_percent = DefaultPercent
    /\ ev_vehicles = [v \in Vehicles |-> NoEV]
    /\ charging_vehicles = EmptyOccupancy
    /\ vehicles_charging = [s \in Stations |-> <<>>]
    /\ charging_sessions = [s \in Stations |-> {}]
    /\ ev_counts = [total_evs |-> 0, charging_count |-> 0]
    /\ last_is_ev = [v \in Vehicles |-> "unseen"]
    /\ snapshot_ids = {}
    /\ route_log = {}

(***************************************************************************)
(* ManhattanPowerNetworkRealistic: dispatch, line flows, state of charge   *)
(* Power is counted in kW, state of charge in millionths; a quotient is    *)
(* truncated to the unit.                                                  *)
(***************************************************************************)
MW(x) == 1000 * x

\* self.generators in insertion order
Generators ==
    << [name |-> "GEN_East_River_GT1", type |-> "gas_turbine", capacity_mw |-> MW(180),
        min_mw |-> MW(50), cost_per_mwh |-> 120, must_run |-> FALSE],
       [name |-> "GEN_East_River_GT2", type |-> "gas_turbine", capacity_mw |-> MW(180),
        min_mw |-> MW(50), cost_per_mwh |-> 120, must_run |-> FALSE],
       [name |-> "GEN_Hudson_CC1", type |-> "combined_cycle", capacity_mw |-> MW(500),
        min_mw |-> MW(150), cost_per_mwh |-> 65, must_run |-> FALSE],
       [name |-> "GEN_ConEd_Steam", type |-> "steam_turbine", capacity_mw |-> MW(300),
        min_mw |-> MW(100), cost_per_mwh |-> 80, must_run |-> FALSE],
       [name |-> "GEN_Solar_Midtown", type |-> "solar_pv", capacity_mw |-> MW(25),
        min_mw |-> 0, cost_per_mwh |-> 0, must_run |-> FALSE],
       [name |-> "GEN_Solar_Chelsea", type |-> "solar_pv", capacity_mw |-> MW(20),
        min_mw |-> 0, cost_per_mwh |-> 0, must_run |-> FALSE],
       [name |-> "GEN_Solar_Financial", type |-> "solar_pv", capacity_mw |-> MW(15),
        min_mw |-> 0, cost_per_mwh |-> 0, must_run |-> FALSE],
       [name |-> "GEN_BESS_Times_Square", type |-> "battery", capacity_mw |-> MW(50),
        min_mw |-> MW(-50), cost_per_mwh |-> 15, must_run |-> FALSE],
       [name |-> "GEN_BESS_Wall_Street", type |-> "battery", capacity_mw |-> MW(40),
        min_mw |-> MW(-40), cost_per_mwh |-> 15, must_run |-> FALSE],
       [name |-> "GEN_Emergency_Traffic_Control", type |-> "diesel", capacity_mw |-> MW(5),
        min_mw |-> MW(1), cost_per_mwh |-> 200, must_run |-> FALSE],
       [name |-> "GEN_FuelCell_OneWTC", type |-> "fuel_cell", capacity_mw |-> MW(10),
        min_mw |-> MW(2), cost_per_mwh |-> 90, must_run |-> FALSE] >>

GenIds == 1..Len(Generators)
BatteryIds == {g \in GenIds : Generators[g].type = "battery"}
ThermalTypes == {"gas_turbine", "combined_cycle", "steam_turbine"}
ThermalIds == {g \in GenIds : Generators[g].type \in ThermalTypes}
RenewableTypes == {"solar_pv", "wind"}

\* energy_capacity_mwh of a battery, MWh
energy_capacity_mwh(g) == IF Generators[g].name = "GEN_BESS_Times_Square" THEN 200 ELSE 160

\* efficiency of a battery, percent
EfficiencyPct == 90

\* current_soc after build_network, and the thresholds 0.2 and 0.9
SocUnit == 1000000
InitialSoc == 500000
MinDischargeSoc == 200000
MaxChargeSoc == 900000

\* surplus that must be exceeded before a battery charges: remaining_load < -50
ChargeSurplus == MW(50)

\* time_step_hours = 0.25, in hundredths of an hour
TimeStepHundredths == 25

Rank_costly_first(g) ==
    1 + Cardinality({h \in GenIds :
            \/ Generators[h].cost_per_mwh > Generators[g].cost_per_mwh
            \/ (Generators[h].cost_per_mwh = Generators[g].cost_per_mwh /\ h < g)})

\* position of generator g in sorted(self.generators.items(), key=cost): the
\* sort is stable, so equal costs keep insertion order
Rank(g) ==
    1 + Cardinality({h \in GenIds :
            \/ Generators[h].cost_per_mwh < Generators[g].cost_per_mwh
            \/ (Generators[h].cost_per_mwh = Generators[g].cost_per_mwh /\ h < g)})

sorted_gens == [k \in GenIds |-> CHOOSE g \in GenIds : Rank(g) = k]

\* math.sin((hour - 6) * math.pi / 12) in thousandths, for 6 <= hour <= 18
SolarCurveMilli(hour) ==
    CASE hour \in {6, 18} -> 0
      [] hour \in {7, 17} -> 259
      [] hour \in {8, 16} -> 500
      [] hour \in {9, 15} -> 707
      [] hour \in {10, 14} -> 866
      [] hour \in {11, 13} -> 966
      [] OTHER -> 1000

\* output of a solar unit at an hour of the day: capacity * curve * 0.85
SolarOutput(g, hour) ==
    IF 6 <= hour /\ hour <= 18
    THEN (((Generators[g].capacity_mw * SolarCurveMilli(hour)) \div 1000) * 85) \div 100
    ELSE 0

\* the renewable loop: a solar unit gets its output for the hour, any other
\* renewable keeps its output; all are taken off the remaining load
RenewableOutput(g, hour) ==
    IF Generators[g].type = "solar_pv" THEN SolarOutput(g, hour) ELSE current_output[g]

\* output of a thermal unit reached with remaining load left
ThermalOutput_unclipped(g, remaining) == Max(Generators[g].min_mw, remaining)

ThermalOutput(g, remaining) ==
    Min(Generators[g].capacity_mw, Max(Generators[g].min_mw, remaining))

\* output of a thermal unit reached with no remaining load
IdleOutput(g) == IF Generators[g].must_run THEN Generators[g].min_mw ELSE 0

\* the thermal loop over sorted_gens from position k on: d carries the
\* outputs, the remaining load, the generation total and the units reached
\* with load remaining
RECURSIVE DispatchThermal(_, _)
DispatchThermal(k, d) ==
    IF k > Len(Generators) THEN d
    ELSE LET g == sorted_gens[k]
         IN IF Generators[g].type \notin ThermalTypes THEN DispatchThermal(k + 1, d)
            ELSE IF d.remaining > 0
            THEN LET output == ThermalOutput(g, d.remaining)
                 IN DispatchThermal(k + 1,
                        [out |-> [d.out EXCEPT ![g] = output],
                         remaining |-> d.remaining - output,
                         total |-> d.total + output,
                         reached |-> d.reached \cup {g}])
            ELSE DispatchThermal(k + 1, [d EXCEPT !.out[g] = IdleOutput(g)])

\* gen['current_soc'] * gen['energy_capacity_mwh'], read as a power in kW
StoredEnergy(g, soc) == (soc * energy_capacity_mwh(g)) \div 1000

\* (1 - gen['current_soc']) * gen['energy_capacity_mwh'], read as a power in kW
FreeEnergy(g, soc) == ((SocUnit - soc) * energy_capacity_mwh(g)) \div 1000

Min3(a, b, c) == Min(a, Min(b, c))

\* whether a battery discharges / charges in the battery loop
DischargeAllowed(remaining, soc) == remaining > 0 /\ soc > MinDischargeSoc
ChargeAllowed(remaining, soc) == remaining < -ChargeSurplus /\ soc < MaxChargeSoc

\* the battery loop over self.generators from generator g on; a battery that
\* neither discharges nor charges keeps the output it had
RECURSIVE DispatchBatteries(_, _)
DispatchBatteries(g, d) ==
    IF g > Len(Generators) THEN d
    ELSE IF Generators[g].type # "battery" THEN DispatchBatteries(g + 1, d)
    ELSE IF DischargeAllowed(d.remaining, current_soc[g])
    THEN LET discharge == Min3(Generators[g].capacity_mw, d.remaining,
                               StoredEnergy(g, current_soc[g]))
         IN DispatchBatteries(g + 1,
                [d EXCEPT !.out[g] = discharge,
                          !.remaining = d.remaining - discharge,
                          !.total = d.total + discharge])
    ELSE IF ChargeAllowed(d.remaining, current_soc[g])
    THEN LET charge == Min3(Generators[g].capacity_mw, -d.remaining,
                            FreeEnergy(g, current_soc[g]))
         IN DispatchBatteries(g + 1,
                [d EXCEPT !.out[g] = -charge, !.remaining = d.remaining + charge])
    ELSE DispatchBatteries(g + 1, d)

Sum(f, S) ==
    LET RECURSIVE Acc(_)
        Acc(T) == IF T = {} THEN 0
                  ELSE LET x == CHOOSE y \in T : TRUE IN f[x] + Acc(T \ {x})
    IN Acc(S)

economic_dispatch_with_reserve(load, hour) ==
    LET renewables == {g \in GenIds : Generators[g].type \in RenewableTypes}
        out1 == [g \in GenIds |->
                    IF g \in renewables THEN RenewableOutput(g, hour)
                    ELSE current_output[g]]
        green == Sum(out1, renewables)
        thermal == DispatchThermal(1, [out |-> out1, remaining |-> load - green,
                                       total |-> green, reached |-> {}])
        final == DispatchBatteries(1, thermal)
    IN [final EXCEPT !.out = [g \in GenIds |->
            IF final.remaining > 0 /\ Generators[g].type \in {"diesel", "fuel_cell"}
            THEN Generators[g].capacity_mw ELSE final.out[g]]]

\* _economic_dispatch() for a total load at an hour of the day: the outputs
\* of all generators, the generation total and the load left unserved
economic_dispatch(load, hour) ==
    LET renewables == {g \in GenIds : Generators[g].type \in RenewableTypes}
        out1 == [g \in GenIds |->
                    IF g \in renewables THEN RenewableOutput(g, hour)
                    ELSE current_output[g]]
        green == Sum(out1, renewables)
        thermal == DispatchThermal(1, [out |-> out1, remaining |-> load - green,
                                       total |-> green, reached |-> {}])
        final == DispatchBatteries(1, thermal)
    IN final

\* change of the state of charge over one time step for an output
SocDischarge(g, output) ==
    (output * TimeStepHundredths * 1000) \div (EfficiencyPct * energy_capacity_mwh(g))
SocCharge(g, output) ==
    ((-output) * TimeStepHundredths * EfficiencyPct) \div (10 * energy_capacity_mwh(g))

ClampSoc_none(soc) == soc

\* max(0.0, min(1.0, soc))
ClampSoc(soc) == Max(0, Min(SocUnit, soc))

\* _update_battery_soc() for one battery
update_battery_soc(g, soc, output) ==
    ClampSoc(IF output > 0 THEN soc - SocDischarge(g, output)
             ELSE IF output < 0 THEN soc + SocCharge(g, output)
             ELSE soc)

\* a sample of self.lines, one line of each voltage class (voltage in 0.01 kV)
Lines ==
    << [name |-> "TL_138_Hellgate_Columbus", voltage |-> 13800, capacity_mw |-> MW(600)],
       [name |-> "TL_27_feeder", voltage |-> 2700, capacity_mw |-> MW(200)],
       [name |-> "FDR_13_8_001", voltage |-> 1380, capacity_mw |-> MW(40)],
       [name |-> "FDR_4_16_001", voltage |-> 416, capacity_mw |-> MW(15)] >>

LineIds == 1..Len(Lines)

LineFlow_uncapped(l, load) ==
    LET cap == Lines[l].capacity_mw
        base_flow == (load \div 1000) * (cap \div 1000)
    IN CASE Lines[l].voltage = 13800 -> (base_flow * 15) \div 10
         [] Lines[l].voltage = 2700 -> (base_flow * 12) \div 10
         [] Lines[l].voltage = 1380 -> base_flow
         [] OTHER -> (base_flow * 8) \div 10

\* _calculate_line_flows() for one line: base_flow = total_load * 0.001 *
\* capacity, scaled and capped by voltage class
LineFlow(l, load) ==
    LET cap == Lines[l].capacity_mw
        base_flow == (load \div 1000) * (cap \div 1000)
    IN CASE Lines[l].voltage = 13800 -> Min((base_flow * 15) \div 10, (cap * 8) \div 10)
         [] Lines[l].voltage = 2700 -> Min((base_flow * 12) \div 10, (cap * 7) \div 10)
         [] Lines[l].voltage = 1380 -> Min(base_flow, (cap * 6) \div 10)
         [] OTHER -> Min((base_flow * 8) \div 10, (cap * 5) \div 10)

\* utilization of a line in hundredths of a percent
Utilization(l, flow) ==
    IF Lines[l].capacity_mw > 0 THEN (flow * 100) \div (Lines[l].capacity_mw \div 100) ELSE 0

\* _check_violations() for the lines; the transformer loading is drawn from
\* uniform(60, 95) and so never above 100: no transformer entry is recorded
LineViolations(flow) ==
    { [element |-> Lines[l].name,
       type |-> IF Utilization(l, flow[l]) > 10000 THEN "line_overload" ELSE "high_loading",
       severity |-> IF Utilization(l, flow[l]) > 12000 THEN "critical" ELSE "warning"] :
      l \in {m \in LineIds : Utilization(m, flow[m]) > 9000} }

\* line loadings, in percent of the line's capacity, _check_violations is
\* applied to: around its thresholds 90, 100 and 120
LoadingSamples == {85, 95, 100, 110, 125}

\* the current_flow of a line loaded to a percentage of its capacity, kW
FlowAt(l, percent) == (Lines[l].capacity_mw \div 100) * percent

\* _check_violations() applied to lines carrying the given flows
check_violations(flow) ==
    /\ line_flow' = flow
    /\ thermal_violations' = LineViolations(flow)
    /\ has_thermal_violations' = TRUE
    /\ UNCHANGED <<total_load, total_generation, current_output, current_soc, soc_before,
                   dispatched, power_steps>>

\* number of simulate_power_flow calls explored
MaxPowerSteps == 9

simulate_power_flow_stale(load, hour) ==
    LET d == economic_dispatch(load, hour)
    IN /\ power_steps < MaxPowerSteps
       /\ power_steps' = power_steps + 1
       /\ total_load' = load
       /\ total_generation' = d.total
       /\ current_output' = d.out
       /\ dispatched' = d.reached
       /\ soc_before' = current_soc
       /\ line_flow' = [l \in LineIds |-> Max(line_flow[l], LineFlow(l, load))]
       /\ thermal_violations' = LineViolations(line_flow')
       /\ has_thermal_violations' = TRUE
       /\ current_soc' = [g \in BatteryIds |->
                             update_battery_soc(g, current_soc[g], d.out[g])]

\* simulate_power_flow() at an hour of the day; load is the sum the method
\* forms over the load tables under the profiles of that moment
simulate_power_flow(load, hour) ==
    LET d == economic_dispatch(load, hour)
    IN /\ power_steps < MaxPowerSteps
       /\ power_steps' = power_steps + 1
       /\ total_load' = load
       /\ total_generation' = d.total
       /\ current_output' = d.out
       /\ dispatched' = d.reached
       /\ soc_before' = current_soc
       /\ line_flow' = [l \in LineIds |-> LineFlow(l, load)]
       /\ thermal_violations' = LineViolations(line_flow')
       /\ has_thermal_violations' = TRUE
       /\ current_soc' = [g \in BatteryIds |->
                             update_battery_soc(g, current_soc[g], d.out[g])]

\* total loads the load tables are sampled at, kW, from light load to a load
\* above the capacity of all units
Loads == {MW(300), MW(520), MW(1300)}

\* hours of the day the clock is sampled at
Hours == {0, 12}

\* the network after build_network; __init__ creates voltage_violations but
\* not thermal_violations, which _check_violations assigns first
PowerInit ==
    /\ total_load = 0
    /\ total_generation = 0
    /\ current_output = [g \in GenIds |-> 0]
    /\ current_soc = [g \in BatteryIds |-> InitialSoc]
    /\ soc_before = [g \in BatteryIds |-> InitialSoc]
    /\ dispatched = {}
    /\ line_flow = [l \in LineIds |-> 0]
    /\ thermal_violations = {}
    /\ has_thermal_violations = FALSE
    /\ power_steps = 0

(***************************************************************************)
(* ManhattanPowerNetworkRealistic: traffic-driven loads                    *)
(* Loads are counted in W; a quotient is truncated to the unit.            *)
(***************************************************************************)
\* a sample of self.traffic_light_loads: two grid controllers, which carry no
\* adaptive_control key, and two major intersections (24 and 10 signal heads)
TrafficLightLoads ==
    [TL_Grid_001 |-> [base_mw |-> 800, adaptive_control |-> FALSE],
     TL_Grid_003 |-> [base_mw |-> 1200, adaptive_control |-> FALSE],
     TL_Major_Times_Square |-> [base_mw |-> 1200, adaptive_control |-> TRUE],
     TL_Major_Wall_Broad |-> [base_mw |-> 1500, adaptive_control |-> FALSE]]

\* a sample of self.ev_charging_loads: two DC fast hubs
EVChargingLoads ==
    [EV_DC_Times_Square_Hub |-> [capacity_mw |-> 1500000, chargers |-> 10],
     EV_DC_Wall_Street_Hub |-> [capacity_mw |-> 900000, chargers |-> 6]]

\* a sample of self.street_light_loads: the first two circuits of Broadway,
\* 55 lights each, one of 250 W lamps and one of dimmable 100 W LEDs
StreetLightLoads ==
    [SL_Broadway_00 |-> [base_mw |-> 13750, dimming_capable |-> FALSE],
     SL_Broadway_01 |-> [base_mw |-> 5500, dimming_capable |-> TRUE]]

\* 'y' in s.lower()
ShowsYellow(state) == Has(state, "y") \/ Has(state, "Y")

\* number of entries of traffic_light_states that show yellow
YellowCount(states) == Cardinality({t \in DOMAIN states : ShowsYellow(states[t])})

AdaptiveBoost_none(tl) == 10

\* the factor 1.2 of an adaptive controller, in tenths
AdaptiveBoost(tl) == IF TrafficLightLoads[tl].adaptive_control THEN 12 ELSE 10

\* base_mw * adaptive_factor (* 1.2), with adaptive_factor = 1 + yellow_ratio *
\* 0.15 and yellow_ratio = yellow / total
SignalLoad(tl, yellow, total) ==
    (((TrafficLightLoads[tl].base_mw * (100 * total + 15 * yellow)) \div (100 * total))
        * AdaptiveBoost(tl)) \div 10

\* the traffic-light block: skipped when traffic_light_states is empty
UpdateSignals(states) ==
    IF DOMAIN states # {}
    THEN [tl \in DOMAIN TrafficLightLoads |->
             SignalLoad(tl, YellowCount(states), Cardinality(DOMAIN states))]
    ELSE traffic_light_loads

\* utilization and current_mw of a station for a list of charging vehicles
StationLoad(st, charging) ==
    LET chargers == EVChargingLoads[st].chargers
    IN [utilization |-> IF chargers > 0 THEN (1000 * Len(charging)) \div chargers ELSE 0,
        current_mw |-> IF chargers > 0
                       THEN (EVChargingLoads[st].capacity_mw * Len(charging) * 85)
                                \div (chargers * 100)
                       ELSE 0]

\* the EV block: skipped when ev_charging_data is empty; otherwise only the
\* stations that ev_charging_data names and the network knows are written
UpdateStations(data) ==
    [st \in DOMAIN EVChargingLoads |->
        IF DOMAIN data # {} /\ st \in DOMAIN data
        THEN StationLoad(st, data[st])
        ELSE ev_charging_loads[st]]

\* dimming_factor by hour of the day, in thousandths
HourDimming(hour) ==
    CASE 6 <= hour /\ hour <= 18 -> 0
      [] 18 <= hour /\ hour <= 20 -> 700
      [] (20 <= hour /\ hour <= 24) \/ (0 <= hour /\ hour <= 5) -> 1000
      [] OTHER -> 500

\* dimming_factor after the adjustment for traffic, in thousandths
Dimming(hour, vehicle_count) ==
    IF vehicle_count < 100 THEN (HourDimming(hour) * 7) \div 10
    ELSE IF vehicle_count > 500 THEN (HourDimming(hour) * 11) \div 10
    ELSE HourDimming(hour)

\* current_mw of a lighting circuit
LightingLoad(sl, dimming) ==
    IF StreetLightLoads[sl].dimming_capable
    THEN (StreetLightLoads[sl].base_mw * dimming * 8) \div 10000
    ELSE (StreetLightLoads[sl].base_mw * Min(1000, dimming)) \div 1000

\* update_traffic_loads(vehicle_count, traffic_light_states, ev_charging_data)
\* at an hour of the day
update_traffic_loads(vehicle_count, states, data, hour) ==
    /\ traffic_light_loads' = UpdateSignals(states)
    /\ ev_charging_loads' = UpdateStations(data)
    /\ street_light_loads' =
          [sl \in DOMAIN StreetLightLoads |->
              LightingLoad(sl, Dimming(hour, vehicle_count))]
    /\ last_update' =
          [quiet |-> /\ vehicle_count = 0
                     /\ DOMAIN states # {}
                     /\ \A t \in DOMAIN states : ColorOf(states[t]) = "red"
                     /\ \A st \in DOMAIN data : Len(data[st]) = 0]

\* the loads after build_network: signals at their base value, stations and
\* lighting at 0
LoadsInit ==
    /\ traffic_light_loads = [tl \in DOMAIN TrafficLightLoads |->
                                 TrafficLightLoads[tl].base_mw]
    /\ ev_charging_loads = [st \in DOMAIN EVChargingLoads |->
                               [utilization |-> 0, current_mw |-> 0]]
    /\ street_light_loads = [sl \in DOMAIN StreetLightLoads |-> 0]
    /\ last_update = [quiet |-> FALSE]

\* ---- inputs of update_traffic_loads ----
\* signal states the controller reports
SignalStates == {<<"r", "r", "r", "r">>, <<"y", "y", "r", "r">>, <<"G", "G", "r", "r">>}

\* signal ids reported in traffic_light_states
MaxSignals == 2
SignalIds == 1..MaxSignals

\* traffic_light_states: any subset of the signals, each with a state
StateDicts ==
    UNION {[S -> SignalStates] : S \in SUBSET SignalIds}

\* station ids a caller may name: the network's own and an id of the
\* simulation's station list, which the network does not know
StationIds == DOMAIN EVChargingLoads \cup {"ev_station_0"}

\* lists of charging vehicles
MaxCharging == 2
ChargingLists == {[i \in 1..n |-> i] : n \in 0..MaxCharging}

\* ev_charging_data: any subset of the station ids, each with a list (one
\* vehicle at the station the network does not know)
ChargingDicts ==
    {data \in UNION {[S -> ChargingLists] : S \in SUBSET StationIds} :
        "ev_station_0" \in DOMAIN data => Len(data["ev_station_0"]) = 1}

\* vehicle counts and hours of the day sampled
VehicleCounts == {0, 200, 600}
LoadHours == {12, 22}

(***************************************************************************)
(* manhattan_simulation: the telemetry block of one loop iteration         *)
(***************************************************************************)
\* station['id'] of the simulation's station list: ev_station_<index>
StationId(s) == IF s = 1 THEN "ev_station_0" ELSE "ev_station_1"

\* charging_vehicles.get(station['id'], [])
OccupantsOf(cv, s) == IF s \in cv.keys THEN cv.occ[s] ELSE <<>>

\* prepare_ev_station_data(charging_vehicles): the dict handed to the power
\* network, keyed by the ids of the simulation's stations
prepare_ev_station_data(cv) ==
    [id \in {StationId(s) : s \in Stations} |->
        OccupantsOf(cv, CHOOSE s \in Stations : StationId(s) = id)]

\* the traffic-driven loads that simulate_power_flow adds to the total, kW
InfrastructureLoad ==
    ( Sum(traffic_light_loads, DOMAIN traffic_light_loads)
    + Sum(street_light_loads, DOMAIN street_light_loads)
    + Sum([st \in DOMAIN ev_charging_loads |-> ev_charging_loads[st].current_mw],
          DOMAIN ev_charging_loads) ) \div 1000

\* get_status()['ev_charging_load_mw']: the station loads summed and rounded
\* to hundredths of a MW
ev_charging_load_mw ==
    (Sum([st \in DOMAIN ev_charging_loads |-> ev_charging_loads[st].current_mw],
         DOMAIN ev_charging_loads) + 5000) \div 10000

\* PowerGridManager.calculate_real_time_load: the loads are updated, then the
\* power flow runs on the base loads of the hour plus the updated loads
calculate_real_time_load(vehicle_count, data, states, base, hour) ==
    /\ update_traffic_loads(vehicle_count, states, data, hour)
    /\ simulate_power_flow(base + InfrastructureLoad', hour)

\* the telemetry block for a snapshot of the vehicles
telemetry_tick(snapshot, draw, base, hour) ==
    /\ process_ev_charging(snapshot, draw)
    /\ calculate_real_time_load(Len(snapshot),
                                prepare_ev_station_data(charging_vehicles'),
                                traffic_light_states, base, hour)

\* sums of the building loads under the profiles of an hour, kW
BaseLoads == {MW(300), MW(520)}

(***************************************************************************)
(* simulate_power_flow on the simulation thread, get_network_data on the   *)
(* thread of a request handler (async_mode='threading', no lock)           *)
(***************************************************************************)
\* number of simulate_power_flow calls explored with a reader alongside
MaxRaceTicks == 2

\* nothing read yet
NoSnapshot == [read |-> FALSE, total_load |-> 0, line_flow |-> [l \in LineIds |-> 0],
               ticks |-> 0, raised |-> FALSE]

\* no simulate_power_flow call under way, no request served
ReaderIdle ==
    /\ flow_pc = "idle"
    /\ pending = [base |-> 0, hour |-> 0]
    /\ observed = NoSnapshot

\* simulate_power_flow(), entry: self.total_load = 0
flow_reset(base, hour) ==
    /\ flow_pc = "idle"
    /\ power_steps < MaxRaceTicks
    /\ flow_pc' = "reset"
    /\ pending' = [base |-> base, hour |-> hour]
    /\ total_load' = 0
    /\ UNCHANGED <<total_generation, current_output, current_soc, soc_before, dispatched,
                   line_flow, thermal_violations, has_thermal_violations, power_steps,
                   observed>>

\* simulate_power_flow(), the loop over self.loads
flow_base_loads ==
    /\ flow_pc = "reset"
    /\ flow_pc' = "base"
    /\ total_load' = total_load + pending.base
    /\ UNCHANGED <<total_generation, current_output, current_soc, soc_before, dispatched,
                   line_flow, thermal_violations, has_thermal_violations, power_steps,
                   pending, observed>>

\* simulate_power_flow(), the loops over the traffic-light, street-light and
\* EV-charging loads
flow_infrastructure_loads ==
    /\ flow_pc = "base"
    /\ flow_pc' = "summed"
    /\ total_load' = total_load + InfrastructureLoad
    /\ UNCHANGED <<total_generation, current_output, current_soc, soc_before, dispatched,
                   line_flow, thermal_violations, has_thermal_violations, power_steps,
                   pending, observed>>

\* simulate_power_flow(), self._economic_dispatch()
flow_economic_dispatch ==
    LET d == economic_dispatch(total_load, pending.hour)
    IN /\ flow_pc = "summed"
       /\ flow_pc' = "dispatched"
       /\ total_generation' = d.total
       /\ current_output' = d.out
       /\ dispatched' = d.reached
       /\ soc_before' = current_soc
       /\ UNCHANGED <<total_load, current_soc, line_flow, thermal_violations,
                      has_thermal_violations, power_steps, pending, observed>>

\* simulate_power_flow(), self._calculate_line_flows()
flow_calculate_line_flows ==
    /\ flow_pc = "dispatched"
    /\ flow_pc' = "flows"
    /\ line_flow' = [l \in LineIds |-> LineFlow(l, total_load)]
    /\ UNCHANGED <<total_load, total_generation, current_output, current_soc, soc_before,
                   dispatched, thermal_violations, has_thermal_violations, power_steps,
                   pending, observed>>

\* simulate_power_flow(), self._check_violations() and
\* self._update_battery_soc(), and the return
flow_finish ==
    /\ flow_pc = "flows"
    /\ flow_pc' = "idle"
    /\ thermal_violations' = LineViolations(line_flow)
    /\ has_thermal_violations' = TRUE
    /\ current_soc' = [g \in BatteryIds |->
                          update_battery_soc(g, current_soc[g], current_output[g])]
    /\ power_steps' = power_steps + 1
    /\ UNCHANGED <<total_load, total_generation, current_output, soc_before, dispatched,
                   line_flow, pending, observed>>

\* handle_request_power_update(): get_network_data() reads the lines'
\* current_flow and self.total_load as they are at that moment, and raises
\* AttributeError at len(self.thermal_violations) if that attribute is missing
handle_request_power_update ==
    /\ observed' = IF has_thermal_violations
                   THEN [read |-> TRUE, total_load |-> total_load,
                         line_flow |-> line_flow, ticks |-> power_steps,
                         raised |-> FALSE]
                   ELSE [NoSnapshot EXCEPT !.raised = TRUE]
    /\ UNCHANGED <<pwVars, flow_pc, pending>>

(***************************************************************************)
(* handle_start, handle_restart and the manhattan_simulation threads       *)
(***************************************************************************)
\* number of manhattan_simulation threads that can be created
MaxThreads == 3
Threads == 1..MaxThreads

\* positions of a thread: not created, created, past simulation_running =
\* True and stop_event.clear(), inside the while loop before and after its
\* first tick, returned
ThreadsIdle ==
    /\ simulation_running = FALSE
    /\ stop_event = FALSE
    /\ sim_pc = [t \in Threads |-> "none"]
    /\ restart_pc = "idle"

\* threading.Thread(target=manhattan_simulation).start()
StartThread ==
    \E t \in Threads :
        /\ sim_pc[t] = "none"
        /\ \A u \in Threads : u < t => sim_pc[u] # "none"
        /\ sim_pc' = [sim_pc EXCEPT ![t] = "created"]

\* handle_start()
handle_start ==
    /\ ~simulation_running
    /\ StartThread
    /\ UNCHANGED <<simulation_running, stop_event, restart_pc>>

\* handle_restart() up to the join: stop_event.set() if a simulation runs
handle_restart_stop ==
    /\ restart_pc = "idle"
    /\ restart_pc' = "joined"
    /\ stop_event' = (stop_event \/ simulation_running)
    /\ UNCHANGED <<simulation_running, sim_pc>>

\* handle_restart() after simulation_thread.join(timeout=2), which returns
\* whether or not the old thread has ended: the metrics reset and the new thread
handle_restart_start ==
    /\ restart_pc = "joined"
    /\ restart_pc' = "idle"
    /\ StartThread
    /\ UNCHANGED <<simulation_running, stop_event>>

\* manhattan_simulation(): simulation_running = True; stop_event.clear()
simulation_begin(t) ==
    /\ sim_pc[t] = "created"
    /\ sim_pc' = [sim_pc EXCEPT ![t] = "begun"]
    /\ simulation_running' = TRUE
    /\ stop_event' = FALSE
    /\ UNCHANGED restart_pc

\* manhattan_simulation(): traci.start and the initialization; connected is
\* whether they return, a raise leads through the except to the finally
simulation_connect(t, connected) ==
    /\ sim_pc[t] = "begun"
    /\ sim_pc' = [sim_pc EXCEPT ![t] = IF connected THEN "loop" ELSE "returned"]
    /\ simulation_running' = (simulation_running /\ connected)
    /\ UNCHANGED <<stop_event, restart_pc>>

\* manhattan_simulation(): one pass of the while loop
simulation_tick(t) ==
    /\ sim_pc[t] \in {"loop", "ticked"}
    /\ ~stop_event
    /\ sim_pc' = [sim_pc EXCEPT ![t] = "ticked"]
    /\ UNCHANGED <<simulation_running, stop_event, restart_pc>>

\* manhattan_simulation(): the loop condition fails (stop_event set, or
\* ended: no vehicle expected any more), traci.close() and the finally
simulation_exit(t, ended) ==
    /\ sim_pc[t] \in {"loop", "ticked"}
    /\ stop_event \/ ended
    /\ sim_pc' = [sim_pc EXCEPT ![t] = "returned"]
    /\ simulation_running' = FALSE
    /\ UNCHANGED <<stop_event, restart_pc>>

(***************************************************************************)
(* SUMOPyPSACoupler (sssssssssssss/src/coupling/coupler.py)                *)
(***************************************************************************)
\* number of steps of run_coupled_simulation explored
MaxCouplerSteps == 6

\* what update_traffic_state reads from the simulator: the number of vehicles
\* and how many of them are stopped EVs
TrafficReadings ==
    { [vehicles |-> 0, stopped_evs |-> 0, signals |-> 3],
      [vehicles |-> 120, stopped_evs |-> 4, signals |-> 5],
      [vehicles |-> 120, stopped_evs |-> 0, signals |-> 5],
      [vehicles |-> 600, stopped_evs |-> 25, signals |-> 3] }

\* where a simulator call of one step raises: nowhere, at the vehicle id
\* list, at a vehicle of the list, at the traffic-light list, or at
\* simulationStep
CouplerFaults == {"none", "id_list", "vehicle", "signals", "step"}
SnapshotFaults == {"id_list", "vehicle", "signals"}

\* update_traffic_state(): the metrics are written up to the call that raises;
\* any exception clears sumo_connected
update_traffic_state(m, reading, fault) ==
    CASE fault = "id_list" -> m
      [] fault = "vehicle" /\ reading.vehicles > 0 ->
            [m EXCEPT !.total_vehicles = reading.vehicles]
      [] OTHER -> [m EXCEPT !.total_vehicles = reading.vehicles,
                            !.evs_charging = reading.stopped_evs]

\* whether update_traffic_state raised and was caught
SnapshotRaised(reading, fault) ==
    fault \in SnapshotFaults /\ (fault = "vehicle" => reading.vehicles > 0)

\* the random terms of run_without_sumo: np.random.randint(-10, 10) and
\* np.random.randint(-2, 3), sampled at their ends
VehicleJitter == {-10, 9}
EvJitter == {-2, 2}

\* hour of the day of a simulation time, in hundredths of an hour
TimeHour(t) == ((t % 86400) * 100) \div 3600

\* run_without_sumo(): synthetic traffic for the hour of the day
run_without_sumo(m, jv, je) ==
    LET h == TimeHour(m.simulation_time)
        base == IF (700 <= h /\ h <= 900) \/ (1700 <= h /\ h <= 1900)
                THEN [vehicles |-> 200, evs |-> 10]
                ELSE IF 2200 <= h \/ h <= 500
                THEN [vehicles |-> 30, evs |-> 15]
                ELSE [vehicles |-> 100, evs |-> 5]
    IN [m EXCEPT !.total_vehicles = base.vehicles + jv,
                 !.evs_charging = base.evs + je]

\* the 41 signals run_without_sumo writes into traffic_state
SyntheticSignals == 41

\* the network of create_simple_power_network: one load of 50 MW, whose name
\* no demand carries, so update_power_loads leaves the sum at 50
SimpleNetworkLoad == 50

\* step_simulation(time_step) for a reading of the simulator, a fault and the
\* random terms
step_simulation(reading, fault, jv, je) ==
    LET m0 == [coupler_metrics EXCEPT !.simulation_time = coupler_step]
        raised == sumo_connected /\ SnapshotRaised(reading, fault)
        m1 == IF sumo_connected THEN update_traffic_state(m0, reading, fault)
              ELSE run_without_sumo(m0, jv, je)
        connected == sumo_connected /\ ~raised
    IN /\ coupler_step < MaxCouplerSteps
       /\ coupler_step' = coupler_step + 1
       /\ coupler_metrics' = [m1 EXCEPT !.total_load_mw = SimpleNetworkLoad]
       /\ signal_count' = IF ~sumo_connected THEN SyntheticSignals
                          ELSE IF raised THEN signal_count
                          ELSE reading.signals
       /\ sumo_connected' = (connected /\ fault # "step")
       /\ snapshot_failed' = (snapshot_failed \/ raised)
       /\ metrics_source' = IF ~sumo_connected THEN "synthetic"
                            ELSE IF raised THEN "partial" ELSE "simulator"

\* the coupler after initialize(): connected to the simulator, or not when
\* traci.start failed
CouplerInit ==
    /\ sumo_connected \in BOOLEAN
    /\ coupler_metrics = [simulation_time |-> 0, total_vehicles |-> 0,
                          evs_charging |-> 0, total_load_mw |-> 0]
    /\ signal_count = 0
    /\ coupler_step = 0
    /\ snapshot_failed = FALSE
    /\ metrics_source = "none"

\* the coupler never constructed
CouplerIdle ==
    /\ sumo_connected = FALSE
    /\ coupler_metrics = [simulation_time |-> 0, total_vehicles |-> 0,
                          evs_charging |-> 0, total_load_mw |-> 0]
    /\ signal_count = 0
    /\ coupler_step = 0
    /\ snapshot_failed = FALSE
    /\ metrics_source = "none"

(***************************************************************************)
(* Specifications                                                          *)
(***************************************************************************)
\* the controller before initialize_manhattan_lights has run
TLIdle ==
    /\ lights = <<>>
    /\ traffic_light_states = <<>>
    /\ sumo_state = <<>>
    /\ tl_counts = [green |-> 0, yellow |-> 0, red |-> 0]
    /\ cycle_time = 0
    /\ tl_obs = <<>>
    /\ fault_count = 0

\* the traffic-light controller driven by the simulation loop
InitTL == TLInit /\ EVInit /\ PowerInit /\ LoadsInit /\ CouplerIdle /\ ReaderIdle /\ ThreadsIdle
NextTL == update_cycle /\ UNCHANGED <<evVars, pwVars, ldVars, cpVars, rdVars, thVars>>
SpecTL == InitTL /\ [][NextTL]_vars

\* the controller over lights of every head count, free of simulator faults
InitHeads == TLInitHeads /\ EVInit /\ PowerInit /\ LoadsInit /\ CouplerIdle /\ ReaderIdle /\ ThreadsIdle
SpecHeads == InitHeads /\ [][NextTL]_vars

\* the EV network under ticks and client events, two freely moving vehicles
InitEV == EVInit /\ TLIdle /\ PowerInit /\ LoadsInit /\ CouplerIdle /\ ReaderIdle /\ ThreadsIdle
TickEV ==
    \E snapshot \in FreeSnapshots, draw \in InitBatteries :
        /\ draw # HighBattery =>
              \E k \in 1..Len(snapshot) :
                  /\ ev_vehicles[snapshot[k].id] = NoEV
                  /\ IsEV(snapshot[k].id, ClampPercent(ev_share_percent))
        /\ process_ev_charging(snapshot, draw)
        /\ UNCHANGED <<tlVars, pwVars, ldVars, cpVars, rdVars, thVars>>
SetShareEV == \E p \in SharePercents : set_ev_percentage(p) /\ UNCHANGED <<tlVars, pwVars, ldVars, cpVars, rdVars, thVars>>
SetBiasEV == \E p \in BiasPercents : set_ev_charging_bias(p) /\ UNCHANGED <<tlVars, pwVars, ldVars, cpVars, rdVars, thVars>>
NextEV == TickEV \/ SetShareEV \/ SetBiasEV
SpecEV == InitEV /\ [][NextEV]_vars

\* the EV network under ticks with a platoon larger than a station's capacity
TickPlatoon ==
    \E snapshot \in PlatoonSnapshots :
        process_ev_charging(snapshot, HighBattery) /\ UNCHANGED <<tlVars, pwVars, ldVars, cpVars, rdVars, thVars>>
SetBiasPlatoon == set_ev_charging_bias(100) /\ UNCHANGED <<tlVars, pwVars, ldVars, cpVars, rdVars, thVars>>
NextEVCap == TickPlatoon \/ SetBiasPlatoon
SpecEVCap == InitEV /\ [][NextEVCap]_vars

\* the EV network under ticks in which the free vehicle, low on battery and
\* driving, is routed while the platoon, created with a high battery, stands
\* at station 1 or is away
RouteSightings ==
    { [pos |-> p, slow |-> FALSE, coin |-> TRUE, route_ok |-> ok] :
        p \in {AtStation, MidWay, FarAway}, ok \in BOOLEAN }
StandingPlatoons == {p \in PlatoonSnapshots : \A k \in 1..Len(p) : p[k].slow}
TickRoute ==
    \E g \in RouteSightings, platoon \in StandingPlatoons, draw \in InitBatteries :
        LET new_free == /\ ev_vehicles[FreeVehicle] = NoEV
                        /\ IsEV(FreeVehicle, ClampPercent(ev_share_percent))
            new_platoon == \E k \in 1..Len(platoon) : ev_vehicles[platoon[k].id] = NoEV
        IN /\ new_free => (draw # HighBattery /\ ~new_platoon)
           /\ ~new_free => draw = HighBattery
           /\ process_ev_charging(<<Sighted(FreeVehicle, g)>> \o platoon, draw)
           /\ UNCHANGED <<tlVars, pwVars, ldVars, cpVars, rdVars, thVars>>
NextRoute == TickRoute \/ SetShareEV
SpecRoute == InitEV /\ [][NextRoute]_vars

\* the power network under simulate_power_flow ticks
InitPower == PowerInit /\ TLIdle /\ EVInit /\ LoadsInit /\ CouplerIdle /\ ReaderIdle /\ ThreadsIdle
TickPower ==
    \E load \in Loads, hour \in Hours :
        simulate_power_flow(load, hour) /\ UNCHANGED <<tlVars, evVars, ldVars, cpVars, rdVars, thVars>>
NextPower == TickPower
SpecPower == InitPower /\ [][NextPower]_vars

\* _check_violations applied to lines at sampled loadings
CheckLines ==
    \E loading \in [LineIds -> LoadingSamples] :
        /\ check_violations([l \in LineIds |-> FlowAt(l, loading[l])])
        /\ UNCHANGED <<tlVars, evVars, ldVars, cpVars, rdVars, thVars>>
NextViolations == CheckLines
SpecViolations == InitPower /\ [][NextViolations]_vars

\* the loads of the power network under update_traffic_loads calls
InitLoads == LoadsInit /\ PowerInit /\ TLIdle /\ EVInit /\ CouplerIdle /\ ReaderIdle /\ ThreadsIdle
UpdateLoads ==
    \E vehicle_count \in VehicleCounts, states \in StateDicts,
       data \in ChargingDicts, hour \in LoadHours :
        /\ update_traffic_loads(vehicle_count, states, data, hour)
        /\ UNCHANGED <<tlVars, evVars, pwVars, cpVars, rdVars, thVars>>
NextLoads == UpdateLoads
SpecLoads == InitLoads /\ [][NextLoads]_vars

\* the simulation loop: telemetry blocks over snapshots of a platoon
InitSim == EVInit /\ TLIdle /\ PowerInit /\ LoadsInit /\ CouplerIdle /\ ReaderIdle /\ ThreadsIdle
TickSim ==
    \E snapshot \in PlatoonSnapshots, base \in BaseLoads, hour \in LoadHours :
        telemetry_tick(snapshot, HighBattery, base, hour) /\ UNCHANGED <<tlVars, cpVars, rdVars, thVars>>
NextSim == TickSim
SpecSim == InitSim /\ [][NextSim]_vars

(***************************************************************************)

\* the simulation thread inside simulate_power_flow with a request handler
\* thread reading the network
InitRace == PowerInit /\ ReaderIdle /\ TLIdle /\ EVInit /\ LoadsInit /\ CouplerIdle /\ ThreadsIdle
FlowStep ==
    /\ \/ \E base \in BaseLoads, hour \in Hours : flow_reset(base, hour)
       \/ flow_base_loads
       \/ flow_infrastructure_loads
       \/ flow_economic_dispatch
       \/ flow_calculate_line_flows
       \/ flow_finish
    /\ UNCHANGED <<tlVars, evVars, ldVars, cpVars, thVars>>
RequestStep == handle_request_power_update /\ UNCHANGED <<tlVars, evVars, ldVars, cpVars, thVars>>
NextRace == FlowStep \/ RequestStep
SpecRace == InitRace /\ [][NextRace]_vars

\* start and restart events interleaved with the simulation threads
InitThreads ==
    ThreadsIdle /\ TLIdle /\ EVInit /\ PowerInit /\ LoadsInit /\ CouplerIdle /\ ReaderIdle
ClientEvent ==
    /\ handle_start \/ handle_restart_stop \/ handle_restart_start
    /\ UNCHANGED <<tlVars, evVars, pwVars, ldVars, cpVars, rdVars>>
ThreadStep ==
    /\ \E t \in Threads :
          \/ simulation_begin(t)
          \/ \E connected \in BOOLEAN : simulation_connect(t, connected)
          \/ simulation_tick(t)
          \/ \E ended \in BOOLEAN : simulation_exit(t, ended)
    /\ UNCHANGED <<tlVars, evVars, pwVars, ldVars, cpVars, rdVars>>
NextThreads == ClientEvent \/ ThreadStep
SpecThreads == InitThreads /\ [][NextThreads]_vars

\* the coupler under run_coupled_simulation
InitCoupler == CouplerInit /\ TLIdle /\ EVInit /\ PowerInit /\ LoadsInit /\ ReaderIdle /\ ThreadsIdle
StepCoupler ==
    \E reading \in TrafficReadings, fault \in CouplerFaults,
       jv \in VehicleJitter, je \in EvJitter :
        /\ step_simulation(reading, fault, jv, je)
        /\ UNCHANGED <<tlVars, evVars, pwVars, ldVars, rdVars, thVars>>
NextCoupler == StepCoupler
SpecCoupler == InitCoupler /\ [][NextCoupler]_vars

(***************************************************************************)
(* Traffic-light claims                                                    *)
(***************************************************************************)
\* C1: every light's phase is in 0..5 in every reachable state, and one
\* update_cycle call leaves the phase alone or moves it to (phase+1) mod 6:
\* never more than one step, never backward, so the order is 0,1,2,3,4,5,0.
C1_PhaseOrder ==
    /\ [](\A i \in Lights : lights[i].phase \in 0..5)
    /\ [][\A i \in Lights :
            \/ lights'[i].phase = lights[i].phase
            \/ lights'[i].phase = (lights[i].phase + 1) % 6]_vars

\* C1 witness: a light that went through all six phases and wrapped to 0 in a
\* run with a simulator fault
C1_Witness ==
    \E i \in Lights :
        /\ lights[i].phase = 0
        /\ tl_obs[i].cycle_calls > 0
        /\ tl_obs[i].cycle_faulted

\* C2: the calls between two consecutive transitions into phase 0 number
\* 2 x (green + yellow + all-red) for the light's pattern (80 AVENUE, 60 STREET),
\* and each phase entered by a transition lasts exactly its configured
\* duration in calls, with or without a simulator fault on that light.
C2_CycleLength ==
    \A i \in Lights :
        /\ tl_obs[i].cycle_calls # 0 =>
              /\ tl_obs[i].cycle_calls
                    = 2 * (green_time(i) + yellow_time(i) + all_red_time(i))
              /\ tl_obs[i].cycle_calls = (IF Pattern(i) = "AVENUE" THEN 80 ELSE 60)
        /\ tl_obs[i].done_phase # -1 =>
              tl_obs[i].done_calls
                 = (CASE tl_obs[i].done_phase \in {0, 3} -> green_time(i)
                      [] tl_obs[i].done_phase \in {1, 4} -> yellow_time(i)
                      [] OTHER -> all_red_time(i))

\* C2 witness: an avenue light that completed a full cycle during which a
\* simulator fault hit it
C2_Witness ==
    \E i \in Lights :
        /\ IsAvenue(i)
        /\ tl_obs[i].cycle_calls = 80
        /\ tl_obs[i].cycle_faulted
        /\ tl_obs[i].done_phase = 5

\* phase and timer of a light after one call that meets no fault
Advanced(l, i) ==
    LET duration == IF l.phase \in {0, 3} THEN green_time(i)
                    ELSE IF l.phase \in {1, 4} THEN yellow_time(i)
                    ELSE all_red_time(i)
    IN IF l.timer + 1 >= duration
       THEN [phase |-> (l.phase + 1) % 6, timer |-> 0]
       ELSE [phase |-> l.phase, timer |-> l.timer + 1]

C14_FaultedLightSkipped ==
    [][\A i \in Lights :
          tl_obs'[i].fault \in {"set", "get", "gen_get"} =>
              /\ lights'[i].phase = lights[i].phase
              /\ lights'[i].timer = lights[i].timer
              /\ traffic_light_states'[i] = traffic_light_states[i]]_vars

\* C22: for every pattern, phase and head count n the generated state string
\* has length exactly n, is all red in phases 2 and 5, and in the other phases
\* shows non-red heads only in the block that owns the phase: the first two
\* heads (AVENUE) or the first floor(n/2) heads (STREET) in phases 0-1, only
\* the remaining heads in phases 3-4.
C22_OwnedBlocks ==
    \A i \in Lights :
        LET state == traffic_light_states[i]
            n == Len(sumo_state[i])
            phase == lights[i].phase
            block == IF Pattern(i) = "AVENUE" THEN 2 ELSE n \div 2
        IN /\ Len(state) = n
           /\ phase \in {2, 5} => \A k \in 1..n : state[k] = "r"
           /\ phase \in {0, 1} => \A k \in 1..n : k > block => state[k] = "r"
           /\ phase \in {3, 4} => \A k \in 1..n : k <= block => state[k] = "r"

\* C27: for every traffic light, after every update_cycle call, the state
\* string stored in traffic_light_states is the string generated for the
\* light's current phase, also when the push of the new state to the external
\* simulator fails.
C27_StoredMatchesPhase ==
    \A i \in Lights :
        traffic_light_states[i] =
            GenerateState(i, lights[i].phase, traffic_light_states[i], FALSE)

\* C28: in every state from initialization onward each traffic light's timer
\* satisfies 0 <= timer < duration of its active phase, for every initial
\* offset initialize_manhattan_lights can assign.
C28_TimerBelowDuration ==
    \A i \in Lights :
        /\ lights[i].timer >= 0
        /\ lights[i].timer < Duration(i, lights[i].phase)

(***************************************************************************)
(* EV-network claims                                                       *)
(***************************************************************************)
\* C3: after every process_ev_charging tick, the occupancy list of every
\* station (charging_vehicles[station] and station['vehicles_charging']) is no
\* longer than the station's capacity, however many eligible vehicles are
\* within the capture radius.
C3_CapacityCap ==
    \A s \in Stations :
        /\ Len(charging_vehicles.occ[s]) <= Capacity(s)
        /\ Len(vehicles_charging[s]) <= Capacity(s)

\* C3 witness: station 1 is full and a further stopped EV within its capture
\* radius was turned away in the same tick
C3_Witness ==
    /\ Len(vehicles_charging[1]) = Capacity(1)
    /\ ev_counts.total_evs > Capacity(1)
    /\ ev_counts.charging_count = Capacity(1)
    /\ \E v \in PlatoonVehicles :
          /\ ev_vehicles[v] # NoEV
          /\ \A k \in 1..Len(vehicles_charging[1]) : vehicles_charging[1][k] # v

\* C4: at the end of every tick every tracked EV has its battery in [0,100],
\* and none has both its charging flag set and battery >= 95.
C4_BatteryRange ==
    \A v \in Vehicles :
        ev_vehicles[v] # NoEV =>
            /\ ev_vehicles[v].battery >= Pct(0)
            /\ ev_vehicles[v].battery <= Pct(100)
            /\ ~(ev_vehicles[v].charging /\ ev_vehicles[v].battery >= Pct(95))

\* C4 witness: a vehicle metered in this tick up to the full battery, with its
\* charging flag cleared
C4_Witness ==
    \E v \in Vehicles, s \in Stations :
        /\ ev_vehicles[v] # NoEV
        /\ ev_vehicles[v].battery = Pct(100)
        /\ ~ev_vehicles[v].charging
        /\ \E k \in 1..Len(vehicles_charging[s]) : vehicles_charging[s][k] = v

\* C9: the classification of a vehicle id is stable for its lifetime: once a
\* tick has classified a vehicle, every later tick that observes it gives the
\* same is_ev, under any interleaving with set_ev_percentage events.
C9_StableClassification ==
    [][\A v \in Vehicles :
          last_is_ev[v] # "unseen" => last_is_ev'[v] = last_is_ev[v]]_vars

(***************************************************************************)
(* Dispatch claims                                                         *)
(***************************************************************************)
\* A comes before B in ascending marginal-cost order (equal costs in the
\* order the units were added)
Cheaper(A, B) ==
    \/ Generators[A].cost_per_mwh < Generators[B].cost_per_mwh
    \/ (Generators[A].cost_per_mwh = Generators[B].cost_per_mwh /\ A < B)

\* C5: merit order: after every dispatch, for any two thermal units A and B
\* with A before B in ascending marginal-cost order, B has non-zero output
\* only if A's output equals A's full capacity.
C5_MeritOrder ==
    \A A \in ThermalIds, B \in ThermalIds :
        (Cheaper(A, B) /\ current_output[B] # 0) =>
            current_output[A] = Generators[A].capacity_mw

\* C5 witness: a dispatch after which the cheapest unit runs at full capacity
\* and the next one contributes less than its capacity
C5_Witness ==
    /\ power_steps > 0
    /\ \E A \in ThermalIds, B \in ThermalIds :
          /\ Cheaper(A, B)
          /\ current_output[A] = Generators[A].capacity_mw
          /\ current_output[B] > 0
          /\ current_output[B] < Generators[B].capacity_mw

\* C6: after every dispatch, every thermal unit reached while demand remained
\* has its output within [min_mw, capacity_mw], every thermal unit not so
\* reached has output 0, and every battery's output is within
\* [-capacity_mw, capacity_mw].
C6_OutputBounds ==
    /\ \A g \in ThermalIds :
          IF g \in dispatched
          THEN /\ current_output[g] >= Generators[g].min_mw
               /\ current_output[g] <= Generators[g].capacity_mw
          ELSE current_output[g] = 0
    /\ \A b \in BatteryIds :
          /\ current_output[b] >= -Generators[b].capacity_mw
          /\ current_output[b] <= Generators[b].capacity_mw

\* C6 witness: a dispatch that ran one unit at capacity and another at its
\* minimum, left a third unreached, and set a battery to its full charge rate
C6_Witness ==
    /\ power_steps > 0
    /\ \E g \in dispatched : current_output[g] = Generators[g].capacity_mw
    /\ \E g \in dispatched : current_output[g] = Generators[g].min_mw
    /\ \E g \in ThermalIds : g \notin dispatched
    /\ \E b \in BatteryIds : current_output[b] = -Generators[b].capacity_mw

\* state of charge expected after one 0.25 h step from soc under output
ExpectedSoc(b, soc, output) ==
    LET energy == energy_capacity_mwh(b)
        raw == IF output > 0 THEN soc - (output * 25 * 1000) \div (90 * energy)
               ELSE IF output < 0 THEN soc + ((-output) * 25 * 90) \div (10 * energy)
               ELSE soc
    IN IF raw < 0 THEN 0 ELSE IF raw > SocUnit THEN SocUnit ELSE raw

\* C7: after every tick each battery's state of charge is the previous one
\* minus output*dt/efficiency/energy when output > 0, plus
\* |output|*dt*efficiency/energy when output < 0, unchanged when output = 0,
\* then clamped to [0,1]; the state of charge is in [0,1] in every state.
C7_SocUpdate ==
    /\ [](\A b \in BatteryIds : current_soc[b] >= 0 /\ current_soc[b] <= SocUnit)
    /\ [][\A b \in BatteryIds :
             current_soc'[b] = ExpectedSoc(b, current_soc[b], current_output'[b])]_vars

\* C7 witness: the 200 MWh battery discharged 50 MW from a state of charge of
\* 0.5 and stands at about 0.4306
C7_Witness ==
    /\ power_steps > 0
    /\ \E b \in BatteryIds :
          /\ energy_capacity_mwh(b) = 200
          /\ soc_before[b] = 500000
          /\ current_output[b] = MW(50)
          /\ current_soc[b] = 430556

\* C8: in every tick a battery is discharging only if its state of charge at
\* dispatch time is above 0.2, and is charging only if its state of charge at
\* dispatch time is below 0.9.
C8_BatteryGuards ==
    power_steps > 0 =>
        \A b \in BatteryIds :
            /\ (current_output[b] > 0 /\ current_soc[b] < soc_before[b]) =>
                    soc_before[b] > MinDischargeSoc
            /\ (current_output[b] < 0 /\ current_soc[b] > soc_before[b]) =>
                    soc_before[b] < MaxChargeSoc

(***************************************************************************)
(* Load claims                                                             *)
(***************************************************************************)
\* C10: after any sequence of earlier update_traffic_loads calls, a call with
\* 0 vehicles, all signals red and no station occupants leaves the total EV
\* charging load at 0 and every traffic-signal load at its base value times
\* the adaptive factor for a yellow ratio of 0 (1.0, times 1.2 for an adaptive
\* intersection).
C10_QuietCall ==
    last_update.quiet =>
        /\ Sum([st \in DOMAIN EVChargingLoads |-> ev_charging_loads[st].current_mw],
               DOMAIN EVChargingLoads) = 0
        /\ \A tl \in DOMAIN TrafficLightLoads :
              traffic_light_loads[tl] =
                  IF TrafficLightLoads[tl].adaptive_control
                  THEN (TrafficLightLoads[tl].base_mw * 12) \div 10
                  ELSE TrafficLightLoads[tl].base_mw

(***************************************************************************)
(* Orchestrator claims                                                     *)
(***************************************************************************)
\* C11: end to end through one tick, a station reported with k occupants has
\* the EV-charging load capacity * (k / chargers) * 0.85 in the network, so a
\* tick in which some station has at least one occupant reports a total
\* EV-charging load above 0 in the status.
C11_OccupiedStationLoad ==
    (power_steps > 0 /\ \E s \in Stations : Len(vehicles_charging[s]) > 0) =>
        ev_charging_load_mw > 0

\* C12: if the traffic snapshot call to the simulator fails in some tick, the
\* tick driver stops: no later tick produces metrics computed from synthetic
\* traffic data.
C12_NoFabricatedTraffic ==
    ~(snapshot_failed /\ metrics_source = "synthetic")

\* C17: whenever, after the renewable and thermal dispatch of a tick, the
\* remaining load is negative (any surplus) and a battery has a state of charge
\* below 0.9, that battery is given a negative output in that tick.  With a
\* surplus no battery discharges, so the remaining load after the thermal loop
\* is total_load - total_generation.
C17_SurplusCharges ==
    (power_steps > 0 /\ total_load - total_generation < 0) =>
        \A g \in BatteryIds : soc_before[g] < MaxChargeSoc => current_output[g] < 0

\* the entries _check_violations has recorded for a line
Recorded(l) == {v \in thermal_violations : v.element = Lines[l].name}

\* C21: _check_violations classifies lines by utilization = flow / capacity x
\* 100: a line is recorded with severity critical if and only if its
\* utilization is above 100, with severity warning if and only if its
\* utilization is above 90 and at most 100, and not recorded at 90 or below.
C21_SeverityClasses ==
    \A l \in LineIds :
        LET u == Utilization(l, line_flow[l])
        IN /\ (\E v \in Recorded(l) : v.severity = "critical") <=> u > 10000
           /\ (\E v \in Recorded(l) : v.severity = "warning") <=> (u > 9000 /\ u <= 10000)
           /\ u <= 9000 => Recorded(l) = {}

\* the cap of a line's utilization by voltage class, in hundredths of a percent
UtilizationCap(l) ==
    CASE Lines[l].voltage = 13800 -> 8000
      [] Lines[l].voltage = 2700 -> 7000
      [] Lines[l].voltage = 1380 -> 6000
      [] OTHER -> 5000

\* C23: after every simulate_power_flow tick each line's utilization is at
\* least 0 and at most its voltage-class cap (80% at 138 kV, 70% at 27 kV, 60%
\* at 13.8 kV, 50% otherwise), so no line is recorded as a thermal violation
\* and the thermal violation count is 0.
C23_UtilizationCapped ==
    power_steps > 0 =>
        /\ \A l \in LineIds :
              /\ Utilization(l, line_flow[l]) >= 0
              /\ Utilization(l, line_flow[l]) <= UtilizationCap(l)
        /\ Cardinality(thermal_violations) = 0

\* C23 witness: after a tick at a load above all generation every line sits
\* exactly at its cap
C23_Witness ==
    /\ power_steps > 0
    /\ total_load = MW(1300)
    /\ \A l \in LineIds : Utilization(l, line_flow[l]) = UtilizationCap(l)

\* C25: after every simulate_power_flow tick the reported total_generation
\* equals the sum over all generators of their positive current_output; a
\* battery that this tick's dispatch neither discharged nor charged has
\* current_output 0.
C25_GenerationIsOutputSum ==
    power_steps > 0 =>
        total_generation = Sum([g \in GenIds |-> Max(0, current_output[g])], GenIds)

\* C30: in every reachable state generators of type diesel and fuel_cell have
\* current_output 0: _economic_dispatch never dispatches them, even in a tick
\* where demand remains unserved after all solar, thermal and battery units
\* have been used.
C30_ReserveUnitsIdle ==
    \A g \in GenIds :
        Generators[g].type \in {"diesel", "fuel_cell"} => current_output[g] = 0

\* C30 witness: after a tick whose load exceeds the generation of all
\* dispatched units, with the batteries discharging, both reserve units are at 0
C30_Witness ==
    /\ power_steps > 0
    /\ total_load > total_generation
    /\ \A g \in BatteryIds : current_output[g] > 0
    /\ \E g \in GenIds : Generators[g].type = "diesel" /\ current_output[g] = 0
    /\ \E g \in GenIds : Generators[g].type = "fuel_cell" /\ current_output[g] = 0

\* C20: every line's current_flow is recomputed in every tick and never
\* carried over: after simulate_power_flow each line's current_flow depends
\* only on that tick's total load and the line's static capacity and voltage
\* class, not on the flow of an earlier tick.
C20_FlowsRecomputed ==
    [][power_steps' > power_steps =>
          \A l \in LineIds :
              LET cap == Lines[l].capacity_mw
                  base_flow == (total_load' \div 1000) * (cap \div 1000)
                  factor == CASE Lines[l].voltage = 13800 -> [scale |-> 15, limit |-> 8]
                              [] Lines[l].voltage = 2700 -> [scale |-> 12, limit |-> 7]
                              [] Lines[l].voltage = 1380 -> [scale |-> 10, limit |-> 6]
                              [] OTHER -> [scale |-> 8, limit |-> 5]
              IN line_flow'[l] = Min((base_flow * factor.scale) \div 10,
                                     (cap * factor.limit) \div 10)]_vars

\* C20 witness: a tick at light load following a tick at a load that put the
\* lines at their caps (a battery has discharged since): the flows are below
\* the caps again
C20_Witness ==
    /\ power_steps >= 2
    /\ total_load = MW(300)
    /\ \E g \in BatteryIds : soc_before[g] < InitialSoc
    /\ \A l \in LineIds : line_flow[l] < LineFlow(l, MW(1300))

\* C16: after every process_ev_charging tick, ev_vehicles holds state exactly
\* for the vehicles that are present in the current snapshot and classified
\* electric; an entry is removed in the tick its vehicle no longer appears.
C16_ExactEvState ==
    \A v \in Vehicles :
        (ev_vehicles[v] # NoEV) <=> (v \in snapshot_ids /\ last_is_ev[v] = "ev")

\* C18: in any tick that begins with a vehicle's battery at 95 or above, the
\* vehicle is not metered: its battery is not increased, it is not added to
\* any station's occupancy list, and its charging flag stays false.
C18_FullNotMetered ==
    [][(/\ ev_share_percent' = ev_share_percent
        /\ ev_charging_bias_percent' = ev_charging_bias_percent) =>
       \A v \in Vehicles :
          (ev_vehicles[v] # NoEV /\ ev_vehicles[v].battery >= StopCharging) =>
              /\ ev_vehicles'[v].battery = ev_vehicles[v].battery
              /\ \A s \in Stations : ~Has(vehicles_charging'[s], v)
              /\ ~ev_vehicles'[v].charging]_vars

\* C19: whenever route_ev_to_station returns a station S for a vehicle, S has
\* free capacity, S's straight-line distance to the vehicle is minimal among
\* the stations with free capacity, and that distance is below the sanity
\* distance; if no station with free capacity lies within the sanity distance,
\* no station is returned and the vehicle's target station is not changed.
C19_RoutedStation ==
    [][(/\ ev_share_percent' = ev_share_percent
        /\ ev_charging_bias_percent' = ev_charging_bias_percent) =>
       \A c \in route_log' :
          LET free == {s \in Stations : Len(vehicles_charging[s]) < Capacity(s)}
              near == {s \in free : Dist2(c.pos, s) < SanityDistance * SanityDistance}
          IN /\ c.station # 0 =>
                  /\ c.station \in near
                  /\ \A t \in free : Dist2(c.pos, c.station) <= Dist2(c.pos, t)
             /\ near = {} =>
                  /\ c.station = 0
                  /\ c.target_after = c.target_before]_vars

\* C19 witness: with station 1 full, a call for a vehicle at station 1
\* returned station 2
C19_Witness ==
    /\ \E c \in route_log : c.pos = AtStation /\ c.station = 2
    /\ Len(vehicles_charging[1]) = Capacity(1)

\* C19 second case reached: a call with no free station within the sanity
\* distance left the vehicle's earlier target in place
C19_OutOfReach ==
    \E c \in route_log : c.pos = FarAway /\ c.station = 0 /\ c.target_before # 0

\* C26: at the end of every process_ev_charging tick every EV whose charging
\* flag is true appears in exactly one station's occupancy list of that tick;
\* a vehicle that has left the capture radius, is no longer slow, or is no
\* longer in the snapshot does not keep charging = true.
C26_ChargingIsListed ==
    \A v \in Vehicles :
        (ev_vehicles[v] # NoEV /\ ev_vehicles[v].charging) =>
            Cardinality({s \in Stations : Has(vehicles_charging[s], v)}) = 1

(***************************************************************************)
(* Concurrency claims                                                      *)
(***************************************************************************)
\* C15: snapshot publication is atomic: a reader never observes partially
\* updated state; the line flows it reads belong to the same tick as the total
\* load it reads, and the total load is never one caught mid-accumulation.
C15_AtomicSnapshot ==
    observed.read =>
        /\ observed.line_flow = [l \in LineIds |-> LineFlow(l, observed.total_load)]
        /\ observed.ticks > 0 => observed.total_load \in
               {base + InfrastructureLoad : base \in BaseLoads}

\* C24: under any interleaving of start_simulation and restart_simulation
\* events with the simulation thread, at most one manhattan_simulation tick
\* loop is running at any time.
C24_SingleLoop ==
    Cardinality({t \in Threads : sim_pc[t] \in {"loop", "ticked"}}) <= 1

\* C29: get_status and get_network_data return a snapshot without raising in
\* every state reachable after the network object is created, in particular
\* when request_power_update arrives before the first simulate_power_flow tick
\* has run.
C29_SnapshotNeverRaises == ~observed.raised

============================================================================
